---- MODULE Spec2Model ----
(***************************************************************************)
(* EDGAR filings pipeline: pollers (live loop and historical collector)    *)
(* de-duplicate search hits on the accession number in the SQLite table    *)
(* adsh_seen and stage new filings in dispatch_queue; FilingProcessor      *)
(* reads the pending rows, extracts, generates signals and marks rows      *)
(* processed.                                                              *)
(*                                                                         *)
(* The store is SQLite as the sqlite3 module drives it: a connection opens *)
(* a transaction implicitly before its first INSERT/UPDATE, that           *)
(* transaction holds the database write lock until conn.commit(), rows it  *)
(* wrote are visible to that connection only, and they are rolled back     *)
(* when the connection is closed or its process dies before the commit.    *)
(*                                                                         *)
(* The store is the database file the processes are pointed at: poll_sec.py,*)
(* pol_sec_test.py and FilingProcessor open filings.db, the collector opens *)
(* its own file unless BACKTEST_DB_PATH names the same one. The model puts  *)
(* a live loop and a collector run on one file, the case in which pollers   *)
(* meet.                                                                    *)
(***************************************************************************)
EXTENDS Integers, Sequences, FiniteSets, TLC

VARIABLES
    adsh_seen,        \* committed rows of table adsh_seen
    dispatch_queue,   \* committed rows of table dispatch_queue
    sqlite_sequence,  \* committed AUTOINCREMENT counter of dispatch_queue
    txn,              \* per connection: the open transaction's uncommitted rows
    pc,               \* per poller: position in main()
    hits,             \* per poller: how many hits of the fetched list are not yet iterated
    hit,              \* per poller: the loop variable, the hit being handled
    rowcount,         \* per poller: cur.rowcount of the last INSERT OR IGNORE
    cycle,            \* per poller: iterations of the outer loop started
    date_range,       \* collector: the list get_date_range returned
    day_hits,         \* search API: whether it returns a fixed list for today, and the list
    kills,            \* processes killed so far
    interrupted,      \* accession numbers whose handling a kill cut between the two inserts
    ppc,              \* FilingProcessor.run_pipeline position
    filings,          \* run_pipeline: the list get_pending_filings returned
    fi,               \* run_pipeline: index of the next filing of the for loop
    signals,          \* SignalGenerator.signals
    results,          \* run_pipeline: what each iteration ended with
    passes,           \* pipeline runs started
    \* paginated fetch (fetch_latest / fetch_filings_for_date), one call
    fmode,            \* which fetch function runs
    fpc,              \* "page": at the top of the for loop, "done": returned
    page,             \* loop variable
    all_hits,         \* len(all_hits)
    requests,         \* the params of the requests sent, in order
    lastLen,          \* len(hits) of the last response (-1: none, or it failed)
    allFull,          \* every response before the last one had >= 100 hits
    failed,           \* the last request raised
    \* a function of the repository called on its own
    call,             \* the last call: the function, its arguments, what it returned
    \* SECFilingMonitor (poll_sec.py at the root of the repository)
    filings_table,    \* table filings of the monitor's database, in rowid order
    filings_seq,      \* sqlite_sequence of table filings (id is AUTOINCREMENT)
    stores,           \* calls of store_filing so far; CURRENT_TIMESTAMP advances with them
    mpc,              \* monitor_filings: "idle" (not running, or returned) / "run"
    total_new_filings,\* monitor_filings' counter
    run_before,       \* accession numbers in the table when the run started
    run_handled,      \* accession numbers of the filings the run has taken so far
    run_found,        \* those of them that passed the time window test
    runs              \* runs of monitor_filings started

pollVars == <<adsh_seen, dispatch_queue, sqlite_sequence, txn, pc, hits, hit, rowcount,
              cycle, date_range, day_hits, kills, interrupted>>
pipeVars == <<ppc, filings, fi, signals, results, passes>>
fetchVars == <<fmode, fpc, page, all_hits, requests, lastLen, allFull, failed>>
callVars == <<call>>
monVars == <<filings_table, filings_seq, stores, mpc, total_new_filings, run_before,
             run_handled, run_found, runs>>
vars == <<pollVars, pipeVars, fetchVars, callVars, monVars>>

-----------------------------------------------------------------------------
(* Bounds of the exploration *)

\* iterations of the live poller's while True loop that are explored
MaxCycles == 2
\* length of the collector's date_range
MaxDates == 1
\* hits a fetch returns at most
MaxHits == 2
\* times run_processor is run
MaxPasses == 1
\* times a poller process is killed
MaxKills == 1

-----------------------------------------------------------------------------
(* Values *)

None == "None"
Absent == "<absent>"

Pollers == {"live", "backfill"}

\* Strings the code takes apart are sequences of characters.
\* Raw hits the search API may return. A hit may lack "form" (KeyError), have an
\* empty "ciks" (IndexError) or an "_id" without a colon (IndexError in build_url).
HitUniverse ==
    { [adsh |-> <<"0", "-", "1">>, form |-> "10-K", ciks |-> << <<"0", "7">> >>,
       id |-> <<"0", "-", "1", ":", "k">>,
       companyName |-> "n1", filingDate |-> "d1", filingHref |-> "f1"],
      [adsh |-> <<"0", "-", "2">>, form |-> "8-K", ciks |-> << <<"8">>, <<"9">> >>,
       id |-> <<"0", "-", "2", ":", "e", ":", "x">>,
       companyName |-> "n2", filingDate |-> "d1", filingHref |-> "f2"],
      [adsh |-> <<"0", "-", "3">>, form |-> Absent, ciks |-> << <<"0", "0">> >>,
       id |-> <<"0", "-", "3", ":", "q">>,
       companyName |-> "n3", filingDate |-> "d1", filingHref |-> "f3"] }

Ids == {h.adsh : h \in HitUniverse}

NoHit == [adsh |-> None]

\* The search API under no assumption: any list of hits at every request.
AnyHits == [fixed |-> FALSE, hits |-> <<>>]

\* The iterations of its outer loop poller p makes: the collector's for loop over
\* date_range ends, the live loop's while True is cut at MaxCycles.
Iterations(p) == IF p = "backfill" THEN Len(date_range) ELSE MaxCycles

NoTxn == [open |-> FALSE, seen |-> <<>>, queue |-> <<>>]

Count(rows, x) == Cardinality({i \in DOMAIN rows : rows[i].adsh = x})


-----------------------------------------------------------------------------
(* Dates: get_date_range (historical_filings_collector.py) *)

\* days_back at most
MaxDaysBack == 10

\* Dates are counted in days from Monday 2024-12-16, so that the windows tried
\* cross the end of a month and of a year.
\* date.weekday(): 0 = Monday ... 6 = Sunday
weekday(n) == n % 7

\* date.isoformat(): "YYYY-MM-DD", zero-padded, here <<YYYY, MM, DD>>
isoformat(n) ==
    IF n <= 15 THEN <<2024, 12, 16 + n>>
    ELSE IF n <= 46 THEN <<2025, 1, n - 15>>
    ELSE <<2025, 2, n - 46>>

\* The order of str on zero-padded fields of equal width: field by field.
StrLess(a, b) ==
    \/ a[1] < b[1]
    \/ a[1] = b[1] /\ a[2] < b[2]
    \/ a[1] = b[1] /\ a[2] = b[2] /\ a[3] < b[3]

\* The list returned as the loop built it, newest first.
unsorted(s) == s

\* sorted(dates)
RECURSIVE sorted(_)
sorted(s) ==
    IF s = <<>> THEN <<>>
    ELSE LET x == Head(s)
             t == sorted(Tail(s))
         IN SelectSeq(t, LAMBDA y : ~StrLess(x, y)) \o <<x>>
               \o SelectSeq(t, LAMBDA y : StrLess(x, y))

\* for i in range(i, days_back + 1): the dates today - i that fall on a weekday < 5
RECURSIVE business_days(_, _, _)
business_days(today, i, days_back) ==
    IF i > days_back THEN <<>>
    ELSE (IF weekday(today - i) < 5 THEN <<isoformat(today - i)>> ELSE <<>>)
            \o business_days(today, i + 1, days_back)

get_date_range(today, days_back) == sorted(business_days(today, 1, days_back))

\* date_range = get_date_range(...) of a collector started on Thursday
\* 2024-12-26 for the n days before it: n dates while n stays below 4.
CollectorDates(n) == get_date_range(10, n)

-----------------------------------------------------------------------------
(* The store *)

\* The rows connection p reads and writes: the committed table followed by the
\* rows of its own open transaction.
SeenView(p) == adsh_seen \o txn[p].seen
QueueView(p) == dispatch_queue \o txn[p].queue

\* No write lock: a connection inserts while another one's transaction is open.
NeverBusy(p) == FALSE

\* The pipeline holding the write lock for the whole of its pass.
BusyWhilePass(p) == (\E q \in Pollers \ {p} : txn[q].open) \/ ppc = "run"

\* Another connection holds the database write lock: this connection's INSERT
\* waits, and raises "database is locked" when the lock is not released in time.
Busy(p) == \E q \in Pollers \ {p} : txn[q].open

LockHeld == \E q \in Pollers : txn[q].open

\* A plain INSERT into a table without the PRIMARY KEY: every call inserts.
InsertPlain(rows, adsh, ts) ==
    [rows |-> Append(rows, [adsh |-> adsh, first_seen_ts |-> ts]), rowcount |-> 1]

\* INSERT OR IGNORE INTO adsh_seen(adsh, first_seen_ts) VALUES(?, datetime('now'))
\* adsh is the PRIMARY KEY: a conflicting row is ignored, rowcount says which.
InsertOrIgnore(rows, adsh, ts) ==
    IF \E i \in DOMAIN rows : rows[i].adsh = adsh
    THEN [rows |-> rows, rowcount |-> 0]
    ELSE [rows |-> Append(rows, [adsh |-> adsh, first_seen_ts |-> ts]), rowcount |-> 1]

\* The dedup keyed on the compound id of the hit.
DedupKeyId(h) == h.id

\* adsh = hit["_source"]["adsh"]: the key of the INSERT OR IGNORE
DedupKey(h) == h.adsh

\* The rowcount test left out: every hit goes on to the enqueue step.
AlreadySeenNever(rc) == FALSE

\* if cur.rowcount == 0: continue
AlreadySeen(rc) == rc = 0

\* str.lstrip(c): the string without its leading characters c
RECURSIVE lstrip(_, _)
lstrip(s, c) == IF s # <<>> /\ Head(s) = c THEN lstrip(Tail(s), c) ELSE s

\* str.replace(old, new) for a one-character old
RECURSIVE replace(_, _, _)
replace(s, old, new) ==
    IF s = <<>> THEN <<>>
    ELSE (IF Head(s) = old THEN new ELSE <<Head(s)>>) \o replace(Tail(s), old, new)

\* s.find(sep): the index of the first sep (1-based), 0 when there is none
RECURSIVE find(_, _)
find(s, sep) ==
    IF s = <<>> THEN 0
    ELSE IF Head(s) = sep THEN 1
    ELSE LET k == find(Tail(s), sep) IN IF k = 0 THEN 0 ELSE k + 1

\* str.split(sep, 1): at most one split, at the first sep
split1(s, sep) ==
    LET k == find(s, sep) IN
    IF k = 0 THEN <<s>> ELSE <<SubSeq(s, 1, k - 1), SubSeq(s, k + 1, Len(s))>>

ArchiveRoot == <<"https://www.sec.gov/Archives/edgar/data/">>

\* hit["_source"]["form"], hit["_source"]["ciks"][0] and hit["_id"].split(":", 1)[1]
\* raise on a hit that lacks them.
HitRaises(h) == h.form = Absent \/ h.ciks = <<>> \/ Len(split1(h.id, ":")) < 2

\* build_url without the lstrip("0") of the owner id.
build_url_padded(h) ==
    LET cik == h.ciks[1]
        accession == replace(h.adsh, "-", <<>>)
        primary == split1(h.id, ":")[2]
    IN ArchiveRoot \o cik \o <<"/">> \o accession \o <<"/">> \o primary

\* build_url: f"https://www.sec.gov/Archives/edgar/data/{cik}/{accession}/{primary}"
build_url(h) ==
    LET cik == lstrip(h.ciks[1], "0")
        accession == replace(h.adsh, "-", <<>>)
        primary == split1(h.id, ":")[2]
    IN ArchiveRoot \o cik \o <<"/">> \o accession \o <<"/">> \o primary

\* An id counter that does not see the rows of the open transaction.
NextIdCommitted(seq, pending) == seq + 1

\* id INTEGER PRIMARY KEY AUTOINCREMENT: one more than the largest id the table
\* has held, as the inserting connection sees the table (sqlite_sequence as
\* committed, plus the rows its open transaction has inserted).
NextId(seq, pending) == seq + Len(pending) + 1

\* A queue row created as already processed.
QueueRowProcessed(h, id, ts) ==
    [id |-> id, adsh |-> h.adsh, form |-> h.form, cik |-> h.ciks[1],
     url |-> build_url(h), company_name |-> h.companyName,
     filing_date |-> h.filingDate, filing_href |-> h.filingHref,
     enqueued_ts |-> ts, processed |-> 1]

\* INSERT INTO dispatch_queue(...): id is AUTOINCREMENT, processed DEFAULT 0.
QueueRow(h, id, ts) ==
    [id |-> id, adsh |-> h.adsh, form |-> h.form, cik |-> h.ciks[1],
     url |-> build_url(h), company_name |-> h.companyName,
     filing_date |-> h.filingDate, filing_href |-> h.filingHref,
     enqueued_ts |-> ts, processed |-> 0]

\* datetime('now') as poller p's statements read it: SQLite's clock has a resolution
\* of one second, a cycle's inserts fall within one tick, and the poller sleeps
\* a second between two iterations.
Now(p) == cycle[p]

\* The queue inserts written through to the database, the seen inserts not.
SurvivesQueue(t) == [NoTxn EXCEPT !.queue = t.queue]

\* The seen inserts written through to the database (a commit after each
\* INSERT OR IGNORE), the queue inserts not.
SurvivesSeen(t) == [NoTxn EXCEPT !.seen = t.seen]

\* What a transaction that is never committed leaves in the database: nothing.
Survives(t) == NoTxn

-----------------------------------------------------------------------------
(* Pollers: main() of pol_sec_test.py / poll_sec.py ("live") and of            *)
(* historical_filings_collector.py ("backfill")                              *)

\* No try/except around the cycle: the exception ends main() and the process.
Uncaught(p) == "dead"

\* except Exception as exc: print(...). The exception raised inside the cycle is
\* caught inside the outer loop, which goes on with its sleep and its next iteration.
Caught(p) == "start"

\* len() of the list a fetch may return to poller p: any length, or that of the
\* day's list when the API returns the same list at every request of the live loop.
FetchLens(p) ==
    IF p = "live" /\ day_hits.fixed THEN {Len(day_hits.hits)} ELSE 0..MaxHits

\* for hit in ...: the hit the loop takes next, with n hits still to come.
NextHits(p, n) ==
    IF p = "live" /\ day_hits.fixed
    THEN {day_hits.hits[Len(day_hits.hits) - n + 1]}
    ELSE HitUniverse

\* fetch_latest(today) / fetch_filings_for_date(date_str) returned a list of hits.
\* The list's length is fixed here; which hit stands at each place is drawn when
\* the for loop reaches it (any list over HitUniverse, repeats included).
Fetch(p) ==
    /\ pc[p] = "start"
    /\ cycle[p] < Iterations(p)
    /\ \E n \in FetchLens(p) : hits' = [hits EXCEPT ![p] = n]
    /\ pc' = [pc EXCEPT ![p] = "loop"]
    /\ cycle' = [cycle EXCEPT ![p] = @ + 1]
    /\ UNCHANGED <<date_range, day_hits, adsh_seen, dispatch_queue, sqlite_sequence, txn, hit, rowcount, kills,
                   interrupted, pipeVars, fetchVars, callVars, monVars>>

\* poll_sec.py: fetch_latest raises (timeout, status, body); main's except logs it
\* and the loop sleeps. Nothing is committed or rolled back.
FetchRaises(p) ==
    /\ p = "live"
    /\ pc[p] = "start"
    /\ cycle[p] < Iterations(p)
    /\ cycle' = [cycle EXCEPT ![p] = @ + 1]
    /\ pc' = [pc EXCEPT ![p] = Caught(p)]
    /\ UNCHANGED <<date_range, day_hits, adsh_seen, dispatch_queue, sqlite_sequence, txn, hits, hit,
                   rowcount, kills, interrupted, pipeVars, fetchVars, callVars, monVars>>

\* The dedup step of one hit: the for loop takes the next hit, INSERT OR IGNORE,
\* then the rowcount test.
MarkSeen(p) ==
    /\ pc[p] = "loop"
    /\ hits[p] > 0
    /\ \E h \in NextHits(p, hits[p]) :
       IF Busy(p)
       THEN \* sqlite3.OperationalError, caught by the cycle's except
            /\ pc' = [pc EXCEPT ![p] = Caught(p)]
            /\ hits' = [hits EXCEPT ![p] = 0]
            /\ hit' = [hit EXCEPT ![p] = NoHit]
            /\ UNCHANGED <<txn, rowcount>>
       ELSE LET r == InsertOrIgnore(SeenView(p), DedupKey(h), Now(p)) IN
            /\ txn' = [txn EXCEPT ![p] =
                         [@ EXCEPT !.open = TRUE,
                                   !.seen = SubSeq(r.rows, Len(adsh_seen) + 1, Len(r.rows))]]
            /\ rowcount' = [rowcount EXCEPT ![p] = r.rowcount]
            /\ hits' = [hits EXCEPT ![p] = @ - 1]
            /\ hit' = [hit EXCEPT ![p] = h]
            /\ pc' = IF AlreadySeen(r.rowcount) THEN pc ELSE [pc EXCEPT ![p] = "enqueue"]
    /\ UNCHANGED <<date_range, day_hits, adsh_seen, dispatch_queue, sqlite_sequence, cycle, kills,
                   interrupted, pipeVars, fetchVars, callVars, monVars>>

\* The rest of the loop body for a new accession number: read the hit's fields,
\* build the URL, INSERT INTO dispatch_queue.
Enqueue(p) ==
    /\ pc[p] = "enqueue"
    /\ IF HitRaises(hit[p])
       THEN \* KeyError / IndexError, caught by the cycle's except: no commit, no rollback
            /\ pc' = [pc EXCEPT ![p] = Caught(p)]
            /\ hits' = [hits EXCEPT ![p] = 0]
            /\ txn' = txn
       ELSE /\ txn' = [txn EXCEPT ![p].queue =
                         Append(@, QueueRow(hit[p], NextId(sqlite_sequence, @), Now(p)))]
            /\ hits' = hits
            /\ pc' = [pc EXCEPT ![p] = "loop"]
    /\ hit' = [hit EXCEPT ![p] = NoHit]
    /\ UNCHANGED <<date_range, day_hits, adsh_seen, dispatch_queue, sqlite_sequence, rowcount, cycle,
                   kills, interrupted, pipeVars, fetchVars, callVars, monVars>>

\* conn.commit() after the for loop: everything the connection wrote since its last
\* commit becomes durable and the write lock is released.
Commit(p) ==
    /\ pc[p] = "loop"
    /\ hits[p] = 0
    /\ adsh_seen' = adsh_seen \o txn[p].seen
    /\ dispatch_queue' = dispatch_queue \o txn[p].queue
    /\ sqlite_sequence' = sqlite_sequence + Len(txn[p].queue)
    /\ txn' = [txn EXCEPT ![p] = NoTxn]
    /\ pc' = [pc EXCEPT ![p] = "start"]
    /\ hit' = [hit EXCEPT ![p] = NoHit]
    /\ UNCHANGED <<date_range, day_hits, hits, rowcount, cycle, kills, interrupted, pipeVars, fetchVars, callVars, monVars>>

\* The collector after its last date: statistics, then conn.close(), which drops
\* a transaction left open by a date that raised.
Close(p) ==
    /\ p = "backfill"
    /\ pc[p] = "start"
    /\ cycle[p] = Iterations(p)
    /\ adsh_seen' = adsh_seen \o Survives(txn[p]).seen
    /\ dispatch_queue' = dispatch_queue \o Survives(txn[p]).queue
    /\ sqlite_sequence' = sqlite_sequence + Len(Survives(txn[p]).queue)
    /\ txn' = [txn EXCEPT ![p] = NoTxn]
    /\ pc' = [pc EXCEPT ![p] = "closed"]
    /\ UNCHANGED <<date_range, day_hits, hits, hit, rowcount, cycle, kills, interrupted, pipeVars, fetchVars, callVars, monVars>>

\* The poller's process is killed (or cancelled with Ctrl+C) at any point.
Kill(p) ==
    /\ pc[p] \notin {"dead", "closed"}
    /\ kills < MaxKills
    /\ kills' = kills + 1
    /\ interrupted' = IF pc[p] = "enqueue" THEN interrupted \cup {hit[p].adsh}
                      ELSE interrupted
    /\ adsh_seen' = adsh_seen \o Survives(txn[p]).seen
    /\ dispatch_queue' = dispatch_queue \o Survives(txn[p]).queue
    /\ sqlite_sequence' = sqlite_sequence + Len(Survives(txn[p]).queue)
    /\ txn' = [txn EXCEPT ![p] = NoTxn]
    /\ pc' = [pc EXCEPT ![p] = "dead"]
    /\ hits' = [hits EXCEPT ![p] = 0]
    /\ hit' = [hit EXCEPT ![p] = NoHit]
    /\ UNCHANGED <<date_range, day_hits, rowcount, cycle, pipeVars, fetchVars, callVars, monVars>>

\* The poller is started again: init_db finds the tables, the loop starts over.
Restart(p) ==
    /\ pc[p] = "dead"
    /\ pc' = [pc EXCEPT ![p] = "start"]
    /\ rowcount' = [rowcount EXCEPT ![p] = -1]
    /\ UNCHANGED <<date_range, day_hits, adsh_seen, dispatch_queue, sqlite_sequence, txn, hits, hit, cycle,
                   kills, interrupted, pipeVars, fetchVars, callVars, monVars>>

-----------------------------------------------------------------------------
(* FilingProcessor *)

\* dict.get(key): None when the key is missing.
Get(d, k) == IF k \in DOMAIN d THEN d[k] ELSE None

\* The SELECT without its WHERE clause: every row of the queue.
get_all_filings(queue) ==
    [i \in 1..Len(queue) |->
        [adsh |-> queue[i].adsh, form |-> queue[i].form, cik |-> queue[i].cik,
         url |-> queue[i].url, enqueued_ts |-> queue[i].enqueued_ts]]

\* SELECT * FROM dispatch_queue WHERE processed = 0: the filing dict is the whole row.
get_pending_rows(queue) == SelectSeq(queue, LAMBDA r : r.processed = 0)

\* SELECT adsh, form, cik, url, enqueued_ts FROM dispatch_queue WHERE processed = 0
\* There is no ORDER BY: the rows come in the order of SQLite's scan of the table,
\* which is the order of the rowid, and id is the rowid.
get_pending_filings(queue) ==
    LET rows == SelectSeq(queue, LAMBDA r : r.processed = 0) IN
    [i \in 1..Len(rows) |->
        [adsh |-> rows[i].adsh, form |-> rows[i].form, cik |-> rows[i].cik,
         url |-> rows[i].url, enqueued_ts |-> rows[i].enqueued_ts]]

\* dict.get(key, default)
GetOr(d, k, default) == IF k \in DOMAIN d THEN d[k] ELSE default

\* BaseExtractor.get_cik
get_cik(filing_data) == GetOr(filing_data, "cik", "")

\* Form10KExtractor.extract
Form10KExtractor_extract(filing_data) ==
    [form_type |-> "10-K", cik |-> get_cik(filing_data),
     filing_date |-> Get(filing_data, "filing_date"),
     company_name |-> Get(filing_data, "company_name"),
     revenue |-> None, net_income |-> None, total_assets |-> None,
     extraction_timestamp |-> None]

\* A generator with a scoring policy: the signal kind is set from the form.
SignalGenerator_scored(extracted_data) ==
    [cik |-> Get(extracted_data, "cik"), form_type |-> Get(extracted_data, "form_type"),
     filing_date |-> Get(extracted_data, "filing_date"),
     signal_type |-> Get(extracted_data, "form_type"), signal_strength |-> None,
     reasoning |-> None, timestamp |-> None]

\* SignalGenerator.process_filing: the signal it appends and returns
SignalGenerator_process_filing(extracted_data) ==
    [cik |-> Get(extracted_data, "cik"), form_type |-> Get(extracted_data, "form_type"),
     filing_date |-> Get(extracted_data, "filing_date"),
     signal_type |-> None, signal_strength |-> None, reasoning |-> None,
     timestamp |-> None]

\* The UPDATE without its WHERE clause: every row of the queue is marked.
mark_all_processed(queue, adsh) ==
    [i \in DOMAIN queue |-> [queue[i] EXCEPT !.processed = 1]]

\* An UPDATE that flips the flag: SET processed = 1 - processed.
mark_filing_toggled(queue, adsh) ==
    [i \in DOMAIN queue |->
        IF queue[i].adsh = adsh THEN [queue[i] EXCEPT !.processed = 1 - @] ELSE queue[i]]

\* A consumer that removes what it has handled: DELETE FROM dispatch_queue WHERE adsh = ?
mark_filing_deleted(queue, adsh) == SelectSeq(queue, LAMBDA r : r.adsh # adsh)

\* UPDATE dispatch_queue SET processed = 1 WHERE adsh = ?
mark_filing_processed(queue, adsh) ==
    [i \in DOMAIN queue |->
        IF queue[i].adsh = adsh THEN [queue[i] EXCEPT !.processed = 1] ELSE queue[i]]

\* Every form handed to the 10-K extractor.
process_filing_any(filing) ==
    LET extracted_data == Form10KExtractor_extract(filing) IN
    [returns |-> "result", extracted |-> <<extracted_data>>,
     signal |-> <<SignalGenerator_process_filing(extracted_data)>>, marks |-> TRUE]

\* FilingProcessor.process_filing up to its call of mark_filing_processed:
\* what it returns or is about to return, the signal it appended, and whether it
\* goes on to mark the filing.
process_filing(filing) ==
    IF filing.form = "10-K"
    THEN LET extracted_data == Form10KExtractor_extract(filing) IN
         [returns |-> "result", extracted |-> <<extracted_data>>,
          signal |-> <<SignalGenerator_process_filing(extracted_data)>>, marks |-> TRUE]
    ELSE [returns |-> "error", extracted |-> <<>>, signal |-> <<>>, marks |-> FALSE]

\* run_processor.main: FilingProcessor() and the start of run_pipeline
PipelineStart ==
    /\ ppc = "idle"
    /\ passes < MaxPasses
    /\ passes' = passes + 1
    /\ filings' = get_pending_filings(dispatch_queue)
    /\ fi' = 1
    /\ signals' = <<>>
    /\ results' = <<>>
    /\ ppc' = "run"
    /\ UNCHANGED <<pollVars, fetchVars, callVars, monVars>>

\* The mark written before the signal is generated: when it raises, no signal.
SignalsLostOnFailure(signal, outcome) == IF outcome = "exception" THEN <<>> ELSE signal

\* signal = self.signal_generator.process_filing(extracted_data) stands before
\* self.mark_filing_processed(...): the signal it appended stays in the list
\* whatever the mark does.
SignalsKept(signal, outcome) == signal

\* The exception of one filing leaves the for loop: no later filing is handled.
NextFilingAborts(i, n, outcome) == IF outcome = "exception" THEN n + 1 ELSE i + 1

\* for filing in filings: try ... except Exception. The loop takes the next
\* filing whatever the one before returned or raised.
NextFiling(i, n, outcome) == i + 1

\* One iteration of run_pipeline's for loop: process_filing(filing) inside try/except.
ProcessFiling ==
    /\ ppc = "run"
    /\ fi <= Len(filings)
    /\ LET filing == filings[fi]
           r == process_filing(filing)
           outcome == IF r.marks /\ LockHeld
                      THEN "exception"  \* database is locked, caught by the loop
                      ELSE r.returns
       IN /\ signals' = signals \o SignalsKept(r.signal, outcome)
          /\ IF r.marks /\ ~LockHeld
             THEN dispatch_queue' = mark_filing_processed(dispatch_queue, filing.adsh)
             ELSE dispatch_queue' = dispatch_queue
          /\ results' = Append(results,
                [adsh |-> filing.adsh, extracted |-> r.extracted, outcome |-> outcome])
          /\ fi' = NextFiling(fi, Len(filings), outcome)
    /\ UNCHANGED <<date_range, day_hits, adsh_seen, sqlite_sequence, txn, pc, hits, hit, rowcount, cycle,
                   kills, interrupted, ppc, filings, passes, fetchVars, callVars, monVars>>

\* The for loop of run_pipeline is over: "Pipeline completed!", the method returns.
PipelineEnd ==
    /\ ppc = "run"
    /\ fi > Len(filings)
    /\ ppc' = "idle"
    /\ UNCHANGED <<pollVars, filings, fi, signals, results, passes, fetchVars, callVars, monVars>>

-----------------------------------------------------------------------------
(* The paginated fetch: fetch_latest (pol_sec_test.py) and                   *)
(* fetch_filings_for_date (historical_filings_collector.py)                  *)

PageSize == 100
LivePages == 5
BackfillPages == 20

FetchModes == {"fetch_latest", "fetch_filings_for_date"}

\* range(1, 6) and range(1, 21)
PageBound(mode) == IF mode = "fetch_latest" THEN LivePages ELSE BackfillPages

\* len(hits) of a response the server may send
RespSizes == {0, 30, 100, 250}

\* if not hits: break
NoHits(n) == n = 0

\* The short-page test never true.
LastPageNever(n) == FALSE

\* if len(hits) < 100: break
LastPage(n) == n < PageSize

\* No try/except around the request: the exception leaves the fetch function.
PageErrorRaises(mode) == "raised"

\* except Exception as e: print(...); break. The loop ends and the function
\* goes on to return all_hits.
PageErrorBreaks(mode) == "done"

\* An offset that counts the requested page in: "from": page*100.
PageParamsSkipping(p) == [page |-> p, from |-> p * 100]

\* params of the request for loop value p: "page": page, "from": (page-1)*100
PageParams(p) == [page |-> p, from |-> (p - 1) * 100]

\* One iteration of the for loop: one request and what follows from its response.
RequestPage ==
    /\ fpc = "page"
    /\ page <= PageBound(fmode)
    /\ requests' = Append(requests, PageParams(page))
    /\ allFull' = (allFull /\ (requests = <<>> \/ lastLen >= PageSize))
    /\ \/ \E n \in RespSizes :
             /\ lastLen' = n
             /\ failed' = FALSE
             /\ IF NoHits(n)
                THEN /\ all_hits' = all_hits
                     /\ page' = page
                     /\ fpc' = "done"
                ELSE /\ all_hits' = all_hits + n
                     /\ IF LastPage(n)
                        THEN page' = page /\ fpc' = "done"
                        ELSE /\ page' = page + 1
                             /\ fpc' = IF page + 1 > PageBound(fmode) THEN "done" ELSE "page"
       \/ \* requests.get / raise_for_status / r.json() raised: logged, break
          /\ failed' = TRUE
          /\ fpc' = PageErrorBreaks(fmode)
          /\ UNCHANGED <<lastLen, all_hits, page>>
    /\ UNCHANGED <<fmode, pollVars, pipeVars, callVars, monVars>>

-----------------------------------------------------------------------------
(* Specifications *)

PollInit ==
    /\ adsh_seen = <<>>
    /\ dispatch_queue = <<>>
    /\ sqlite_sequence = 0
    /\ txn = [p \in Pollers |-> NoTxn]
    /\ pc = [p \in Pollers |-> "start"]
    /\ hits = [p \in Pollers |-> 0]
    /\ hit = [p \in Pollers |-> NoHit]
    /\ rowcount = [p \in Pollers |-> -1]
    /\ cycle = [p \in Pollers |-> 0]
    /\ date_range = CollectorDates(MaxDates)
    /\ day_hits = AnyHits
    /\ kills = 0
    /\ interrupted = {}

PipeInit ==
    /\ ppc = "idle"
    /\ filings = <<>>
    /\ fi = 1
    /\ signals = <<>>
    /\ results = <<>>
    /\ passes = 0

FetchIdle ==
    /\ fmode = "none"
    /\ fpc = "idle"
    /\ page = 1
    /\ all_hits = 0
    /\ requests = <<>>
    /\ lastLen = -1
    /\ allFull = TRUE
    /\ failed = FALSE

NoCall == [fn |-> None]

CallIdle == call = NoCall

\* SECFilingMonitor(): init_database has created the empty table filings.
MonitorIdle ==
    /\ filings_table = <<>>
    /\ filings_seq = 0
    /\ stores = 0
    /\ mpc = "idle"
    /\ total_new_filings = 0
    /\ run_before = {}
    /\ run_handled = {}
    /\ run_found = {}
    /\ runs = 0

Init == PollInit /\ PipeInit /\ FetchIdle /\ CallIdle /\ MonitorIdle

PollNext ==
    \/ \E p \in Pollers : Fetch(p)
    \/ \E p \in Pollers : FetchRaises(p)
    \/ \E p \in Pollers : MarkSeen(p)
    \/ \E p \in Pollers : Enqueue(p)
    \/ \E p \in Pollers : Commit(p)
    \/ \E p \in Pollers : Close(p)

PipeNext ==
    \/ PipelineStart
    \/ ProcessFiling
    \/ PipelineEnd

Next == PollNext \/ PipeNext

\* Live poller, collector and pipeline against one store.
Spec == Init /\ [][Next]_vars

\* The steps of poller p's process.
PollerStep(p) ==
    Fetch(p) \/ FetchRaises(p) \/ MarkSeen(p) \/ Enqueue(p) \/ Commit(p) \/ Close(p)

\* The same, with every poller's process kept running by its scheduler: a step
\* it can take (a statement, the end of a sleep) is taken.
SpecLive == Init /\ [][Next]_vars /\ \A p \in Pollers : WF_vars(PollerStep(p))

CrashNext ==
    \/ PollNext
    \/ \E p \in Pollers : Kill(p)
    \/ \E p \in Pollers : Restart(p)

\* The pollers against one store, with their processes killed and restarted.
SpecCrash == Init /\ [][CrashNext]_vars

FetchInit ==
    /\ PollInit
    /\ PipeInit
    /\ fmode \in FetchModes
    /\ fpc = "page"
    /\ page = 1
    /\ all_hits = 0
    /\ requests = <<>>
    /\ lastLen = -1
    /\ allFull = TRUE
    /\ failed = FALSE
    /\ CallIdle
    /\ MonitorIdle

FetchNext == RequestPage

\* One call of a paginated fetch against any server.
SpecFetch == FetchInit /\ [][FetchNext]_vars

\* length of the date list of a collector run that is followed to its end
MaxBackfillDates == 2

BackfillInit ==
    /\ adsh_seen = <<>>
    /\ dispatch_queue = <<>>
    /\ sqlite_sequence = 0
    /\ txn = [p \in Pollers |-> NoTxn]
    /\ pc = [p \in Pollers |-> "start"]
    /\ hits = [p \in Pollers |-> 0]
    /\ hit = [p \in Pollers |-> NoHit]
    /\ rowcount = [p \in Pollers |-> -1]
    /\ cycle = [p \in Pollers |-> 0]
    /\ date_range = CollectorDates(MaxBackfillDates)
    /\ day_hits = AnyHits
    /\ kills = 0
    /\ interrupted = {}
    /\ PipeInit
    /\ FetchIdle
    /\ CallIdle
    /\ MonitorIdle

\* A collector run over several dates beside the live loop, both processes kept
\* running.
SpecBackfill == BackfillInit /\ [][PollNext]_vars /\ \A p \in Pollers : WF_vars(PollerStep(p))

\* hits the API returns for one day
MaxDayHits == 3

\* The hits of the day: those of HitUniverse, a second one that cannot be
\* read (a hit with an empty "ciks"), and a hit for another document of the
\* first filing: its accession number, another path, form and owner.
DayHitUniverse ==
    HitUniverse \cup
    { [adsh |-> <<"0", "-", "4">>, form |-> "10-K", ciks |-> <<>>,
       id |-> <<"0", "-", "4", ":", "k">>,
       companyName |-> "n4", filingDate |-> "d1", filingHref |-> "f4"],
      [adsh |-> <<"0", "-", "1">>, form |-> "10-K/A", ciks |-> << <<"5">> >>,
       id |-> <<"0", "-", "1", ":", "x">>,
       companyName |-> "n5", filingDate |-> "d1", filingHref |-> "f5"] }

\* The lists of hits the API may return for a day.
DayLists == UNION {[1..n -> DayHitUniverse] : n \in 1..MaxDayHits}

RecoveryInit ==
    /\ adsh_seen = <<>>
    /\ dispatch_queue = <<>>
    /\ sqlite_sequence = 0
    /\ txn = [p \in Pollers |-> NoTxn]
    /\ pc = [p \in Pollers |-> "start"]
    /\ hits = [p \in Pollers |-> 0]
    /\ hit = [p \in Pollers |-> NoHit]
    /\ rowcount = [p \in Pollers |-> -1]
    /\ cycle = [p \in Pollers |-> 0]
    /\ date_range = CollectorDates(MaxDates)
    /\ day_hits \in [fixed : {TRUE}, hits : DayLists]
    /\ kills = 0
    /\ interrupted = {}
    /\ PipeInit
    /\ FetchIdle
    /\ CallIdle
    /\ MonitorIdle

RecoveryNext ==
    \/ Fetch("live")
    \/ FetchRaises("live")
    \/ MarkSeen("live")
    \/ Enqueue("live")
    \/ Commit("live")

\* The live loop alone on an empty store, the API returning the same list of
\* hits for the day at every request that succeeds; the loop is kept running.
SpecRecovery == RecoveryInit /\ [][RecoveryNext]_vars /\ WF_vars(PollerStep("live"))

-----------------------------------------------------------------------------
(* FilingProcessor's store methods called on their own, on any store the     *)
(* pollers and earlier passes can have left                                  *)

\* The hits a poller can enqueue.
Enqueueable == {h \in HitUniverse : ~HitRaises(h)}

\* Committed queues: rows of distinct enqueueable hits, ids in insertion order,
\* each row pending or processed.
QueueStates ==
    UNION { { [i \in 1..n |-> [QueueRow(hs[i], i, ts[i]) EXCEPT !.processed = fl[i]]] :
                 hs \in {f \in [1..n -> Enqueueable] : \A i, j \in 1..n : i # j => f[i] # f[j]},
                 ts \in {f \in [1..n -> 1..MaxCycles] : \A i, j \in 1..n : i < j => f[i] <= f[j]},
                 fl \in [1..n -> {0, 1}] } :
            n \in 0..Cardinality(Enqueueable) }

ProcessorInit ==
    /\ dispatch_queue \in QueueStates
    /\ adsh_seen = [i \in DOMAIN dispatch_queue |->
                       [adsh |-> dispatch_queue[i].adsh,
                        first_seen_ts |-> dispatch_queue[i].enqueued_ts]]
    /\ sqlite_sequence = Len(dispatch_queue)
    /\ txn = [p \in Pollers |-> NoTxn]
    /\ pc = [p \in Pollers |-> "start"]
    /\ hits = [p \in Pollers |-> 0]
    /\ hit = [p \in Pollers |-> NoHit]
    /\ rowcount = [p \in Pollers |-> -1]
    /\ cycle = [p \in Pollers |-> 0]
    /\ date_range = CollectorDates(MaxDates)
    /\ day_hits = AnyHits
    /\ kills = 0
    /\ interrupted = {}
    /\ PipeInit
    /\ FetchIdle
    /\ CallIdle
    /\ MonitorIdle

\* processor.get_pending_filings()
CallGetPending ==
    /\ call' = [fn |-> "get_pending_filings", result |-> get_pending_filings(dispatch_queue)]
    /\ UNCHANGED <<pollVars, pipeVars, fetchVars, monVars>>

\* processor.mark_filing_processed(adsh): UPDATE, commit, close; returns None.
CallMarkProcessed ==
    \E adsh \in Ids :
       /\ dispatch_queue' = mark_filing_processed(dispatch_queue, adsh)
       /\ call' = [fn |-> "mark_filing_processed", adsh |-> adsh, result |-> None,
                   before |-> dispatch_queue,
                   again |-> (call.fn = "mark_filing_processed" /\ call.adsh = adsh)]
       /\ UNCHANGED <<date_range, day_hits, adsh_seen, sqlite_sequence, txn, pc, hits, hit, rowcount, cycle,
                      kills, interrupted, pipeVars, fetchVars, monVars>>

ProcessorNext == CallGetPending \/ CallMarkProcessed

\* Calls of FilingProcessor's store methods, no poller writing.
SpecProcessor == ProcessorInit /\ [][ProcessorNext]_vars

-----------------------------------------------------------------------------
(* build_url called on its own, on any hit                                   *)

\* length of the strings build_url is tried on
MaxStr == 3

\* The strings of at most n characters over an alphabet.
Strs(alphabet, n) == UNION {[1..k -> alphabet] : k \in 0..n}

\* The spec's example: owner 0000320193, accession 0001193125-20-012345,
\* compound id 0001193125-20-012345:aapl-10k.htm (runs of characters that
\* build_url keeps together are written as one element).
ExampleHit ==
    [adsh |-> <<"0001193125", "-", "20", "-", "012345">>,
     ciks |-> << <<"0", "0", "0", "0", "320193">> >>,
     id |-> <<"0001193125", "-", "20", "-", "012345", ":", "aapl", "-", "10k.htm">>]

\* Hits as far as build_url reads them: the owner list, the accession number,
\* the compound id.
UrlInputs ==
    {ExampleHit} \cup
    { [adsh |-> a, ciks |-> c, id |-> i] :
         a \in Strs({"1", "-"}, MaxStr),
         c \in {<<>>} \cup {<<o>> : o \in Strs({"0", "3"}, MaxStr)}
                \cup {<<o, <<"9">> >> : o \in Strs({"0", "3"}, 1)},
         i \in Strs({"a", ":"}, MaxStr) }

\* build_url(hit): the URL, or the IndexError of [0] on an empty owner list or of
\* [1] on an id without a colon.
CallBuildUrl ==
    /\ call = NoCall
    /\ \E h \in UrlInputs :
          call' = IF h.ciks = <<>> \/ Len(split1(h.id, ":")) < 2
                  THEN [fn |-> "build_url", args |-> h, raised |-> TRUE, result |-> <<>>]
                  ELSE [fn |-> "build_url", args |-> h, raised |-> FALSE,
                        result |-> build_url(h)]
    /\ UNCHANGED <<pollVars, pipeVars, fetchVars, monVars>>

UrlNext == CallBuildUrl

\* Calls of build_url.
SpecUrl == Init /\ [][UrlNext]_vars

-----------------------------------------------------------------------------
(* get_date_range (historical_filings_collector.py) called on its own       *)

\* The values of dt.date.today() tried: two weeks of them.
Todays == MaxDaysBack..(MaxDaysBack + 13)

CallGetDateRange ==
    /\ call = NoCall
    /\ \E today \in Todays : \E days_back \in 0..MaxDaysBack :
          call' = [fn |-> "get_date_range", today |-> today, days_back |-> days_back,
                   result |-> get_date_range(today, days_back)]
    /\ UNCHANGED <<pollVars, pipeVars, fetchVars, monVars>>

DatesNext == CallGetDateRange

\* Calls of get_date_range.
SpecDates == Init /\ [][DatesNext]_vars

-----------------------------------------------------------------------------
(* SignalGenerator called on its own *)

\* calls of SignalGenerator.process_filing on one generator
MaxSignals == 2

\* Extracted records: what an extractor returns, the base fields set or None.
ExtractedRecords ==
    [form_type : {"10-K", "8-K"}, cik : {"7", ""}, filing_date : {"d1", None},
     company_name : {"n1", None}, revenue : {None}, net_income : {None},
     total_assets : {None}, extraction_timestamp : {None}]

\* generator.process_filing(extracted_data): self.signals.append(signal); return signal
CallSignalGenerator ==
    /\ Len(signals) < MaxSignals
    /\ \E extracted_data \in ExtractedRecords :
          LET signal == SignalGenerator_process_filing(extracted_data) IN
          /\ signals' = Append(signals, signal)
          /\ call' = [fn |-> "SignalGenerator.process_filing", args |-> extracted_data,
                      result |-> signal]
    /\ UNCHANGED <<pollVars, ppc, filings, fi, results, passes, fetchVars, monVars>>

SignalNext == CallSignalGenerator

\* Calls of process_filing on a SignalGenerator() that starts with no signals.
SpecSignal == Init /\ [][SignalNext]_vars

-----------------------------------------------------------------------------
(* The pacing of the live loop: the sleep at the end of each iteration of     *)
(* while True, in seconds of time.time()                                      *)

\* sleep_left = 1 - (time.time() - start)    (pol_sec_test.py)
TestInterval == 1
\* sleep_left = 60 - (time.time() - start)   (poll_sec.py)
LiveInterval == 60

\* iterations of while True that are timed
MaxPaced == 2
\* the first iteration starts at most this late
MaxStart == 3

Intervals == {TestInterval, LiveInterval}

\* How long the work of a cycle may take: no time, a second, just under, exactly,
\* just over and twice the interval.
Durations(interval) == {0, 1, interval - 1, interval, interval + 1, 2 * interval}

\* A fixed delay after the work, whatever it took.
sleep_fixed(interval, start, now) == interval

\* sleep_left = interval - (time.time() - start)
sleep_left(interval, start, now) == interval - (now - start)

\* One iteration of while True: start = time.time(), the cycle's work, then
\* if sleep_left > 0: time.sleep(sleep_left). The record keeps when the
\* iteration started, when its work was over and when the next one starts.
PacedCycle ==
    /\ \/ /\ call = NoCall
          /\ \E interval \in Intervals : \E start \in 0..MaxStart : \E d \in Durations(interval) :
                LET now == start + d
                    left == sleep_left(interval, start, now)
                IN call' = [fn |-> "cycle", n |-> 1, interval |-> interval, start |-> start,
                            end |-> now, next |-> IF left > 0 THEN now + left ELSE now]
       \/ /\ call.fn = "cycle"
          /\ call.n < MaxPaced
          /\ \E d \in Durations(call.interval) :
                LET start == call.next
                    now == start + d
                    left == sleep_left(call.interval, start, now)
                IN call' = [fn |-> "cycle", n |-> call.n + 1, interval |-> call.interval,
                            start |-> start, end |-> now,
                            next |-> IF left > 0 THEN now + left ELSE now]
    /\ UNCHANGED <<pollVars, pipeVars, fetchVars, monVars>>

PacingNext == PacedCycle

\* The live loop's clock readings, cycle after cycle.
SpecPacing == Init /\ [][PacingNext]_vars

-----------------------------------------------------------------------------
(* The pipeline on queues whose entries store any publication date and owner *)
(* name: run_pipeline over a committed queue, no poller writing              *)

\* What the pollers store in company_name and filing_date: the hit's value, or ""
\* when the hit has none (.get(..., "")).
StoredNames == {"", "n1", "n2"}
StoredDates == {"", "d1", "d2"}

\* Hits that can be enqueued, with any kind the pipeline tells apart and any
\* owner name and publication date.
HandOffHits ==
    { [h EXCEPT !.form = f, !.companyName = n, !.filingDate = d] :
         h \in Enqueueable, f \in {"10-K", "8-K"}, n \in StoredNames, d \in StoredDates }

\* Committed queues of pending entries for distinct accession numbers.
HandOffQueues ==
    UNION { { [i \in 1..n |-> QueueRow(hs[i], i, 1)] :
                 hs \in {f \in [1..n -> HandOffHits] :
                            \A i, j \in 1..n : i # j => f[i].adsh # f[j].adsh} } :
            n \in 1..Cardinality(Enqueueable) }

HandOffInit ==
    /\ dispatch_queue \in HandOffQueues
    /\ adsh_seen = [i \in DOMAIN dispatch_queue |->
                       [adsh |-> dispatch_queue[i].adsh,
                        first_seen_ts |-> dispatch_queue[i].enqueued_ts]]
    /\ sqlite_sequence = Len(dispatch_queue)
    /\ txn = [p \in Pollers |-> NoTxn]
    /\ pc = [p \in Pollers |-> "start"]
    /\ hits = [p \in Pollers |-> 0]
    /\ hit = [p \in Pollers |-> NoHit]
    /\ rowcount = [p \in Pollers |-> -1]
    /\ cycle = [p \in Pollers |-> 0]
    /\ date_range = CollectorDates(MaxDates)
    /\ day_hits = AnyHits
    /\ kills = 0
    /\ interrupted = {}
    /\ PipeInit
    /\ FetchIdle
    /\ CallIdle
    /\ MonitorIdle

\* run_processor.py on a store no poller is writing to.
SpecHandOff == HandOffInit /\ [][PipeNext]_vars

-----------------------------------------------------------------------------
(* SECFilingMonitor (poll_sec.py at the root of the repository): store_filing *)
(* and monitor_filings on the table filings                                   *)

\* store_filing calls tried
MaxStores == 3

\* runs of monitor_filings, and filings one run takes from get_company_filings
MaxRuns == 2
MaxFilings == 2

\* monitor_filings(..., days_back=30)
DaysBack == 30

\* date.today() of the runs: Saturday 2025-01-25, so that the window starts on
\* 2024-12-26.
Today == 40

Tickers == {"AAPL", "MSFT"}
AccessionNumbers == {"acc-1", "acc-2"}

\* Filing objects as get_company_filings may return them: an attribute the
\* object does not have is a field the record does not have. For each accession
\* number: a filing inside the window without company_name; the same filing as
\* a later request returns it, every attribute different, dated on the first
\* day of the window; a filing older than the window; one without description;
\* one whose form is None; one whose filing_date is None.
FilingUniverse ==
    UNION { { [accession_number |-> a, form |-> "10-K", filing_date |-> isoformat(Today - 5),
               description |-> "annual", url |-> "u1"],
              [accession_number |-> a, form |-> "10-K/A", filing_date |-> isoformat(Today - DaysBack),
               description |-> "amended", company_name |-> "n2"],
              [accession_number |-> a, form |-> "8-K", filing_date |-> isoformat(Today - DaysBack - 1),
               description |-> "old", company_name |-> "n1", url |-> "u3"],
              [accession_number |-> a, form |-> "10-Q", filing_date |-> isoformat(Today - 1),
               company_name |-> "n1", url |-> "u4"],
              [accession_number |-> a, form |-> None, filing_date |-> isoformat(Today - 2),
               description |-> "formless", company_name |-> "n1", url |-> "u5"],
              [accession_number |-> a, form |-> "4", filing_date |-> None,
               description |-> "undated", company_name |-> "n1", url |-> "u6"] } :
            a \in AccessionNumbers }

\* What store_filing returns is <<id>> for a row id and <<>> for None.
\* The outcome of the except branch: conn.rollback(), return None.
Rollback(table, seq) == [table |-> table, seq |-> seq, returns |-> <<>>]

\* Rows of the table with the filing's accession number (SELECT id FROM filings
\* WHERE accession_number = ?).
Existing(table, filing) ==
    {i \in DOMAIN table : table[i].accession_number = filing.accession_number}

\* cursor.fetchone(): the first row of the result
fetchone(rows) == CHOOSE i \in rows : \A j \in rows : i <= j

\* INSERT OR REPLACE INTO filings: the stored row is deleted and a new row with
\* a new id is inserted.
store_filing_replace(table, seq, ticker, filing, now) ==
    IF "description" \notin DOMAIN filing \/ filing.form = None \/ filing.filing_date = None
    THEN Rollback(table, seq)
    ELSE [table |-> Append(SelectSeq(table,
                              LAMBDA r : r.accession_number # filing.accession_number),
                       [id |-> seq + 1, company_ticker |-> ticker,
                        company_name |-> GetOr(filing, "company_name", ""),
                        form_type |-> filing.form, filing_date |-> filing.filing_date,
                        accession_number |-> filing.accession_number,
                        description |-> filing.description,
                        url |-> GetOr(filing, "url", ""),
                        created_at |-> now, updated_at |-> now]),
          seq |-> seq + 1, returns |-> <<seq + 1>>]

\* SECFilingMonitor.store_filing: the table and the id counter after the call,
\* and what the call returns. filing.description raises AttributeError when the
\* object has none; form_type and filing_date are NOT NULL; every exception ends
\* in the except branch.
store_filing(table, seq, ticker, filing, now) ==
    LET existing == Existing(table, filing) IN
    IF existing # {}
    THEN IF "description" \notin DOMAIN filing
         THEN Rollback(table, seq)
         ELSE [table |-> [i \in DOMAIN table |->
                            IF i \in existing
                            THEN [table[i] EXCEPT
                                    !.company_name = GetOr(filing, "company_name", ""),
                                    !.description = filing.description,
                                    !.updated_at = now]
                            ELSE table[i]],
               seq |-> seq,
               returns |-> <<table[fetchone(existing)].id>>]
    ELSE IF "description" \notin DOMAIN filing \/ filing.form = None \/ filing.filing_date = None
         THEN Rollback(table, seq)
         ELSE [table |-> Append(table,
                            [id |-> seq + 1, company_ticker |-> ticker,
                             company_name |-> GetOr(filing, "company_name", ""),
                             form_type |-> filing.form, filing_date |-> filing.filing_date,
                             accession_number |-> filing.accession_number,
                             description |-> filing.description,
                             url |-> GetOr(filing, "url", ""),
                             created_at |-> now, updated_at |-> now]),
               seq |-> seq + 1, returns |-> <<seq + 1>>]

\* One call of store_filing with its connection's outcome: the statements run,
\* or sqlite3 raises (the database is locked by another process, the disk is
\* full) and the call ends in the except branch.
StoreOutcomes(table, seq, ticker, filing, now) ==
    {store_filing(table, seq, ticker, filing, now), Rollback(table, seq)}

\* monitor.store_filing(ticker, filing), called on its own
CallStoreFiling ==
    /\ stores < MaxStores
    /\ \E ticker \in Tickers : \E filing \in FilingUniverse :
       \E r \in StoreOutcomes(filings_table, filings_seq, ticker, filing, stores + 1) :
          /\ filings_table' = r.table
          /\ filings_seq' = r.seq
          /\ call' = [fn |-> "store_filing", ticker |-> ticker, filing |-> filing,
                      result |-> r.returns]
    /\ stores' = stores + 1
    /\ UNCHANGED <<pollVars, pipeVars, fetchVars, mpc, total_new_filings, run_before,
                   run_handled, run_found, runs>>

StoreNext == CallStoreFiling

\* Any sequence of store_filing calls on a fresh database.
SpecStore == Init /\ [][StoreNext]_vars

\* datetime.strptime(s, '%Y-%m-%d'): the day the string names
strptime(s) == CHOOSE n \in 0..(Today + 1) : isoformat(n) = s

\* filing_date >= datetime.now() - timedelta(days=days_back), the filing's date
\* being midnight of its day and now being today at time of day tod (0: midnight).
InWindow(filing, tod, days_back) ==
    LET day == strptime(filing.filing_date) IN
    \/ day > Today - days_back
    \/ day = Today - days_back /\ tod = 0

\* if filing_id:
Truthy(x) == x # <<>> /\ x[1] # 0

\* monitor_filings is called: total_new_filings = 0
MonitorStart ==
    /\ mpc = "idle"
    /\ runs < MaxRuns
    /\ runs' = runs + 1
    /\ mpc' = "run"
    /\ total_new_filings' = 0
    /\ run_before' = {filings_table[i].accession_number : i \in DOMAIN filings_table}
    /\ run_handled' = {}
    /\ run_found' = {}
    /\ call' = NoCall
    /\ UNCHANGED <<pollVars, pipeVars, fetchVars, filings_table, filings_seq, stores>>

\* One iteration of `for filing in filings`: the window test, store_filing, the
\* count. A filing_date that strptime cannot read raises TypeError, caught by the
\* except of the form_type loop: the filing is not stored. The lists of one run
\* are for different tickers and forms, so a run meets an accession number once.
MonitorFiling ==
    /\ mpc = "run"
    /\ Cardinality(run_handled) < MaxFilings
    /\ \E ticker \in Tickers : \E filing \in FilingUniverse : \E tod \in {0, 1} :
          /\ filing.accession_number \notin run_handled
          /\ run_handled' = run_handled \cup {filing.accession_number}
          /\ IF filing.filing_date # None /\ InWindow(filing, tod, DaysBack)
             THEN \E r \in StoreOutcomes(filings_table, filings_seq, ticker, filing, stores + 1) :
                     /\ filings_table' = r.table
                     /\ filings_seq' = r.seq
                     /\ stores' = stores + 1
                     /\ run_found' = run_found \cup {filing.accession_number}
                     /\ total_new_filings' = IF Truthy(r.returns)
                                              THEN total_new_filings + 1
                                              ELSE total_new_filings
             ELSE UNCHANGED <<filings_table, filings_seq, stores, run_found, total_new_filings>>
    /\ UNCHANGED <<pollVars, pipeVars, fetchVars, callVars, mpc, run_before, runs>>

\* The loops are over: return total_new_filings
MonitorEnd ==
    /\ mpc = "run"
    /\ mpc' = "idle"
    /\ call' = [fn |-> "monitor_filings", result |-> total_new_filings]
    /\ UNCHANGED <<pollVars, pipeVars, fetchVars, filings_table, filings_seq, stores,
                   total_new_filings, run_before, run_handled, run_found, runs>>

MonitorNext == MonitorStart \/ MonitorFiling \/ MonitorEnd

\* monitor_filings run again and again on one database (poll_sec.py's main).
SpecMonitor == Init /\ [][MonitorNext]_vars

-----------------------------------------------------------------------------
(* Properties *)

\* Rows for accession number x written by transactions that are still open.
UncommittedSeen(x) ==
    Cardinality(UNION {{<<p, i>> : i \in {j \in DOMAIN txn[p].seen : txn[p].seen[j].adsh = x}} :
                       p \in Pollers})

UncommittedQueue(x) ==
    Cardinality(UNION {{<<p, i>> : i \in {j \in DOMAIN txn[p].queue : txn[p].queue[j].adsh = x}} :
                       p \in Pollers})

\* A call of tryMarkSeen observed Inserted (rowcount 1) exactly when it added a
\* row: the Inserted observations in effect for x are the rows for x, committed
\* or in an open transaction.
InsertedInEffect(x) == Count(adsh_seen, x) + UncommittedSeen(x)

QueueEntriesInEffect(x) == Count(dispatch_queue, x) + UncommittedQueue(x)

\* Poller p is inside a cycle and its last INSERT OR IGNORE has returned.
Returned(p) == pc[p] \in {"loop", "enqueue"} /\ hit[p] # NoHit

IdempotentDiscovery ==
    \A p \in Pollers :
       (Returned(p) /\ pc[p] = "loop" /\ rowcount[p] = 0) =>
          /\ Count(SeenView(p), hit[p].adsh) = 1
          /\ Count(QueueView(p), hit[p].adsh) = 1

\* C3. No double-enqueue under concurrent pollers: in every reachable state the
\* dispatch queue, uncommitted inserts included, holds at most one QueueEntry
\* per identifier.
NoDoubleEnqueue == \A x \in Ids : QueueEntriesInEffect(x) <= 1

\* Both pollers are inside a cycle and were offered the same hit: the other one
\* enqueued it, p found it already seen.
NoDoubleEnqueueWitness ==
    \E p \in Pollers : \E q \in Pollers \ {p} :
       /\ Returned(p)
       /\ rowcount[p] = 0
       /\ cycle[p] = 1
       /\ txn[p].queue = <<>>
       /\ txn[p].seen = <<>>
       /\ pc[q] = "loop"
       /\ Count(dispatch_queue, hit[p].adsh) = 1

\* The entries of the pass's pending list that are (not) marked in the store.
Processed(adsh) ==
    \A j \in DOMAIN dispatch_queue :
       dispatch_queue[j].adsh = adsh => dispatch_queue[j].processed = 1

PassOver == ppc = "idle" /\ passes > 0

\* C4. Processed regardless of outcome: after a pipeline pass every entry that
\* was pending at its start has processed = true.
ProcessedRegardless ==
    PassOver => \A i \in DOMAIN filings : Processed(filings[i].adsh)

Registered == {"10-K"}

CountWhere(seq, Test(_)) == Cardinality({i \in DOMAIN seq : Test(seq[i])})

\* C5. End-to-end pass: with n pending entries of a registered kind and m of an
\* unregistered kind, after the pass all n + m are processed, n ExtractedRecords
\* were produced, m no-extractor outcomes were recorded and the SignalGenerator
\* holds n Signals.
EndToEndPass ==
    PassOver =>
       LET n == CountWhere(filings, LAMBDA f : f.form \in Registered)
           m == CountWhere(filings, LAMBDA f : f.form \notin Registered)
       IN /\ \A i \in DOMAIN filings : Processed(filings[i].adsh)
          /\ CountWhere(results, LAMBDA r : r.extracted # <<>>) = n
          /\ CountWhere(results, LAMBDA r : r.outcome = "error") = m
          /\ Len(signals) = n

\* C6. Unknown kind is data, not a fault: the iteration of run_pipeline that
\* dispatches an entry whose kind has no extractor ends with the explicit
\* no-extractor value as process_filing's ordinary return value (the loop's
\* except branch is not taken, the loop goes on) and appends no Signal.
UnknownKindIsData ==
    [][ (ppc = "run" /\ fi <= Len(filings) /\ fi' = fi + 1
            /\ filings[fi].form \notin Registered)
        => /\ signals' = signals
           /\ ppc' = "run"
           /\ results' = Append(results, [adsh |-> filings[fi].adsh,
                                          extracted |-> <<>>, outcome |-> "error"])
      ]_vars

\* A pass has dispatched an entry of an unregistered kind.
UnknownKindWitness ==
    \E i \in DOMAIN results :
       /\ results[i].outcome = "error"
       /\ filings[i].form \notin Registered

\* C7. Pagination rule: pages are requested in order 1, 2, 3, ...; a request is
\* only sent after full pages; the fetch stops at the first page with zero hits
\* or fewer hits than the page size or at the page-count bound, and not before.
Pagination ==
    /\ \A i \in DOMAIN requests : requests[i].page = i
    /\ Len(requests) <= PageBound(fmode)
    /\ allFull
    /\ fpc = "page" =>
          /\ page = Len(requests) + 1
          /\ Len(requests) < PageBound(fmode)
          /\ requests # <<>> => (lastLen >= PageSize /\ ~failed)
    /\ (fpc = "done" /\ ~failed) =>
          \/ lastLen = 0
          \/ lastLen < PageSize
          \/ Len(requests) = PageBound(fmode)

\* Pages of 250, 100, 100 and 30 hits: 4 requests, then the fetch returned.
PaginationWitness ==
    /\ fmode = "fetch_latest"
    /\ fpc = "done"
    /\ ~failed
    /\ Len(requests) = 4
    /\ lastLen = 30
    /\ all_hits = 480

\* C8. Crash safety of mark-seen-then-enqueue: with pollers killed at any point
\* and restarted, the durable store never holds two QueueEntries for one
\* identifier, and every durable QueueEntry has its SeenRecord (a dispatch may
\* be lost, never duplicated).
CrashNeverDuplicates ==
    \A x \in Ids :
       /\ Count(dispatch_queue, x) <= 1
       /\ Count(dispatch_queue, x) = 1 => Count(adsh_seen, x) = 1

\* A poller was killed between the mark-seen insert and the enqueue insert of a
\* hit, and after a restart the identifier is in the durable queue.
CrashWitness ==
    \E x \in interrupted :
       /\ Count(dispatch_queue, x) = 1
       /\ \E p \in Pollers : pc[p] = "start" /\ cycle[p] >= 2

\* C9. Seen/queue one-to-one: in every committed store state an identifier has
\* a QueueEntry iff it has a SeenRecord, and never more than one of either.
SeenQueueOneToOne ==
    \A x \in Ids :
       /\ Count(adsh_seen, x) <= 1
       /\ Count(dispatch_queue, x) <= 1
       /\ Count(dispatch_queue, x) = 1 <=> Count(adsh_seen, x) = 1

\* C10. Processed flag is monotonic: every step keeps the committed rows of the
\* queue in place, a row that has processed = 1 keeps it, a row a step adds has
\* processed = 0, and so has every uncommitted row.
ProcessedMonotonic ==
    [][ /\ Len(dispatch_queue') >= Len(dispatch_queue)
        /\ \A i \in DOMAIN dispatch_queue' :
              IF i \in DOMAIN dispatch_queue
              THEN /\ dispatch_queue'[i].id = dispatch_queue[i].id
                   /\ dispatch_queue'[i].adsh = dispatch_queue[i].adsh
                   /\ dispatch_queue[i].processed = 1 => dispatch_queue'[i].processed = 1
                   /\ dispatch_queue'[i].processed \in {0, 1}
              ELSE dispatch_queue'[i].processed = 0
        /\ \A p \in Pollers : \A i \in DOMAIN txn'[p].queue :
              txn'[p].queue[i].processed = 0
      ]_vars

\* A processed entry is in the queue, a pass is over, and a poller has since
\* committed a further entry behind it.
ProcessedMonotonicWitness ==
    /\ PassOver
    /\ \E i \in DOMAIN dispatch_queue : \E j \in DOMAIN dispatch_queue :
          /\ i < j
          /\ dispatch_queue[i].processed = 1
          /\ dispatch_queue[j].processed = 0
          /\ \A k \in DOMAIN filings : filings[k].adsh # dispatch_queue[j].adsh

\* C11. SeenRecords are permanent and unique: after every step the seen store
\* holds at most one row per identifier, and every committed row is still in its
\* place with the identifier and the first_seen_ts it was committed with (no
\* later sighting, by any poller, and no pipeline step removes or rewrites it).
SeenPermanentUnique ==
    [][ /\ \A x \in Ids : Count(adsh_seen', x) <= 1
        /\ \A p \in Pollers : \A x \in Ids : Count(SeenView(p)', x) <= 1
        /\ Len(adsh_seen') >= Len(adsh_seen)
        /\ \A i \in DOMAIN adsh_seen : adsh_seen'[i] = adsh_seen[i]
      ]_vars

\* An identifier committed in an earlier cycle is sighted again in a later one
\* (rowcount 0) and its row still carries the earlier timestamp.
SeenPermanentWitness ==
    \E p \in Pollers : \E i \in DOMAIN adsh_seen :
       /\ Returned(p)
       /\ rowcount[p] = 0
       /\ adsh_seen[i].adsh = hit[p].adsh
       /\ adsh_seen[i].first_seen_ts < Now(p)

\* The id of the queue row of an accession number.
QueueId(adsh) ==
    LET j == CHOOSE k \in DOMAIN dispatch_queue : dispatch_queue[k].adsh = adsh
    IN dispatch_queue[j].id

\* C12. listPending returns exactly the entries with processed = 0, each once
\* and with its own fields, ordered by queue id ascending.
ListPendingOrdered ==
    call.fn = "get_pending_filings" =>
       LET pending == {j \in DOMAIN dispatch_queue : dispatch_queue[j].processed = 0}
           got == call.result
       IN /\ Len(got) = Cardinality(pending)
          /\ \A j \in pending : \E i \in DOMAIN got :
                /\ got[i].adsh = dispatch_queue[j].adsh
                /\ got[i].form = dispatch_queue[j].form
                /\ got[i].cik = dispatch_queue[j].cik
                /\ got[i].url = dispatch_queue[j].url
                /\ got[i].enqueued_ts = dispatch_queue[j].enqueued_ts
          /\ \A i \in DOMAIN got : \E j \in pending : got[i].adsh = dispatch_queue[j].adsh
          /\ \A i1, i2 \in DOMAIN got :
                i1 < i2 => QueueId(got[i1].adsh) < QueueId(got[i2].adsh)

\* listPending on a queue with a processed entry in front of a pending one.
ListPendingWitness ==
    /\ call.fn = "get_pending_filings"
    /\ Len(dispatch_queue) = 2
    /\ dispatch_queue[1].processed = 1
    /\ Len(call.result) = 1

AlreadyProcessed(queue, adsh) ==
    \E j \in DOMAIN queue : queue[j].adsh = adsh /\ queue[j].processed = 1

\* C13. markProcessed is idempotent: a call for an entry that is already
\* processed leaves the queue exactly as it was and returns normally; a call
\* that repeats the one before it changes nothing, so twice is the same as once.
\* After any call the entry is processed and every other row is untouched.
MarkIdempotent ==
    call.fn = "mark_filing_processed" =>
       /\ call.result = None
       /\ AlreadyProcessed(call.before, call.adsh) => dispatch_queue = call.before
       /\ call.again => dispatch_queue = call.before
       /\ dispatch_queue = mark_filing_processed(dispatch_queue, call.adsh)
       /\ Len(dispatch_queue) = Len(call.before)
       /\ \A j \in DOMAIN dispatch_queue :
             IF dispatch_queue[j].adsh = call.adsh
             THEN dispatch_queue[j] = [call.before[j] EXCEPT !.processed = 1]
             ELSE dispatch_queue[j] = call.before[j]

\* markProcessed was called twice in a row for an entry of the queue.
MarkIdempotentWitness ==
    /\ call.fn = "mark_filing_processed"
    /\ call.again
    /\ AlreadyProcessed(dispatch_queue, call.adsh)
    /\ \E j \in DOMAIN dispatch_queue : dispatch_queue[j].processed = 0

\* C14. The live poll loop survives every in-cycle failure: whatever happens in
\* a cycle of the live loop (a fetch failure, a hit whose handling raises, a
\* locked store), the loop starts its next cycle; the loop is never left.
LoopSurvives ==
    /\ [](pc["live"] \in {"start", "loop", "enqueue"})
    /\ \A c \in 1..(MaxCycles - 1) :
          [](cycle["live"] = c => <>(cycle["live"] = c + 1))

\* A hit of the live loop's first cycle raised after its seen row was written
\* (the row is still uncommitted), and the loop is in its second cycle.
LoopSurvivesWitness ==
    /\ cycle["live"] = 2
    /\ pc["live"] = "loop"
    /\ txn["live"].seen # <<>>
    /\ txn["live"].seen[1].first_seen_ts = 1

Outcomes == {"result", "error", "exception"}

\* C16. Per-item isolation in a pipeline pass: during a pass the entries of the
\* pending list are dispatched one by one in list order, each dispatched entry
\* has exactly one outcome (Success: "result", NoExtractor: "error",
\* ExtractionError: "exception"), and when the pass is over every entry of the
\* list has been dispatched exactly once, whatever raised on the way.
PerItemIsolation ==
    passes > 0 =>
       /\ fi \in 1..(Len(filings) + 1)
       /\ Len(results) = fi - 1
       /\ \A i \in DOMAIN results :
             /\ results[i].adsh = filings[i].adsh
             /\ results[i].outcome \in Outcomes
       /\ \A i, j \in DOMAIN filings : i # j => filings[i].adsh # filings[j].adsh
       /\ PassOver => Len(results) = Len(filings)

\* The first entry of a pass raised (the store was locked when it was to be
\* marked) and the entry after it was dispatched all the same.
PerItemIsolationWitness ==
    /\ PassOver
    /\ Len(results) = 2
    /\ results[1].outcome = "exception"
    /\ results[2].outcome \in {"result", "error"}

\* C17. Duplicate is terminal and effect-free: the step in which a poller's
\* INSERT OR IGNORE reports rowcount 0 for a hit goes straight on to the next hit
\* of the loop (no enqueue step for it), and it leaves the seen store and the
\* dispatch queue, committed and as the poller's connection sees them, as they
\* were: rows, ids, processed flags, the id counter.
DuplicateEffectFree ==
    [][ \A p \in Pollers :
          (pc[p] = "loop" /\ hits'[p] = hits[p] - 1 /\ hit'[p] # NoHit /\ rowcount'[p] = 0)
          => /\ pc'[p] = "loop"
             /\ SeenView(p)' = SeenView(p)
             /\ QueueView(p)' = QueueView(p)
             /\ adsh_seen' = adsh_seen
             /\ dispatch_queue' = dispatch_queue
             /\ sqlite_sequence' = sqlite_sequence
      ]_vars

\* A hit whose entry the pipeline has already processed is sighted again.
DuplicateWitness ==
    \E p \in Pollers : \E j \in DOMAIN dispatch_queue :
       /\ pc[p] = "loop"
       /\ hit[p] # NoHit
       /\ rowcount[p] = 0
       /\ dispatch_queue[j].adsh = hit[p].adsh
       /\ dispatch_queue[j].processed = 1

\* C18. Producer never blocks on consumer: whatever the pipeline does (never
\* run, stalled in the middle of a pass, over) and however many entries are
\* unprocessed, a poller that no other poller keeps from the store gets its
\* INSERT OR IGNORE through, and a poller at its enqueue step with a well-formed
\* hit gets the hit's entry into the queue. The pipeline is under no fairness:
\* it may stop anywhere.
ProducerNeverBlocks ==
    /\ [][ \A p \in Pollers :
             (/\ pc[p] = "loop" /\ hits[p] > 0
              /\ (pc'[p] # pc[p] \/ hits'[p] # hits[p])
              /\ ~\E q \in Pollers \ {p} : txn[q].open)
             => hit'[p] # NoHit
         ]_vars
    /\ \A p \in Pollers : \A h \in Enqueueable :
          [](pc[p] = "enqueue" /\ hit[p] = h => <>(Count(QueueView(p), h.adsh) = 1))

\* The pipeline is stalled in the middle of a pass with an entry still pending,
\* and a poller has just put a further entry into the queue.
ProducerWitness ==
    \E p \in Pollers :
       /\ ppc = "run"
       /\ fi <= Len(filings)
       /\ \E j \in DOMAIN dispatch_queue : dispatch_queue[j].processed = 0
       /\ txn[p].queue # <<>>
       /\ pc[p] = "loop"

\* C19. URL construction: for every hit with an owner and a colon in its
\* compound id, build_url returns <archive-root><owner-id>/<accession>/<primary>:
\* owner-id is the first owner identifier without its leading zeros (all of
\* them, and nothing else), accession is the accession number without its
\* dashes, primary is what follows the first colon of the compound id (later
\* colons kept). For the example hit it is .../320193/000119312520012345/aapl-10k.htm.
UrlConstruction ==
    (call.fn = "build_url" /\ ~call.raised) =>
       LET h == call.args
           owner == h.ciks[1]
           nodash == SelectSeq(h.adsh, LAMBDA c : c # "-")
       IN /\ \E z \in 0..Len(owner) : \E k \in 1..Len(h.id) :
                /\ \A i \in 1..z : owner[i] = "0"
                /\ z < Len(owner) => owner[z + 1] # "0"
                /\ h.id[k] = ":"
                /\ \A i \in 1..(k - 1) : h.id[i] # ":"
                /\ call.result = ArchiveRoot \o SubSeq(owner, z + 1, Len(owner)) \o <<"/">>
                                    \o nodash \o <<"/">> \o SubSeq(h.id, k + 1, Len(h.id))
          /\ h = ExampleHit =>
                call.result = <<"https://www.sec.gov/Archives/edgar/data/", "320193", "/",
                                "0001193125", "20", "012345", "/", "aapl", "-", "10k.htm">>

\* build_url returned for a hit with two leading zeros in its owner id, a dash in
\* its accession number and two colons in its compound id.
UrlWitness ==
    /\ call.fn = "build_url"
    /\ ~call.raised
    /\ call.args.ciks = << <<"0", "0", "3">> >>
    /\ call.args.adsh = <<"1", "-", "1">>
    /\ call.args.id = <<"a", ":", ":">>
    /\ call.result = <<"https://www.sec.gov/Archives/edgar/data/", "3", "/", "1", "1", "/", ":">>

\* The Monday-to-Friday days among the days_back days before today.
WindowBusinessDays(today, days_back) ==
    {d \in (today - days_back)..(today - 1) : d % 7 \notin {5, 6}}

\* C20. Backfill date range: get_date_range returns exactly the Monday-to-Friday
\* dates among the days_back calendar days before today, each once, oldest
\* first (the k-th entry is the date with k - 1 earlier ones in the window);
\* for a 10-day window with 2 weekend days it has 8 entries.
DateRange ==
    call.fn = "get_date_range" =>
       LET days == WindowBusinessDays(call.today, call.days_back)
           got == call.result
       IN /\ Len(got) = Cardinality(days)
          /\ \A k \in DOMAIN got :
                \E d \in days : /\ got[k] = isoformat(d)
                                /\ Cardinality({e \in days : e < d}) = k - 1
          /\ (call.days_back = 10 /\ call.days_back - Cardinality(days) = 2)
                => Len(got) = 8

\* A 10-day window with one weekend in it that runs over the end of the year:
\* 8 dates, from December to January.
DateRangeWitness ==
    /\ call.fn = "get_date_range"
    /\ call.days_back = 10
    /\ Len(call.result) = 8
    /\ call.result[1][1] = 2024
    /\ call.result[8][1] = 2025

\* C21. SignalGenerator is an identity-like pass-through: every call of
\* process_filing returns a Signal with the record's owner identifier, document
\* kind and publication date, with signal kind, strength and rationale (and the
\* timestamp) unset and with no other field, so the result is a function of the
\* record alone; the call appends exactly that Signal to the list, keeps the
\* signals already there and changes nothing else.
SignalPassThrough ==
    [][ call'.fn = "SignalGenerator.process_filing" =>
          LET rec == call'.args
              sig == call'.result
          IN /\ sig.cik = rec.cik
             /\ sig.form_type = rec.form_type
             /\ sig.filing_date = rec.filing_date
             /\ sig.signal_type = None /\ sig.signal_strength = None /\ sig.reasoning = None
             /\ sig = [cik |-> rec.cik, form_type |-> rec.form_type,
                       filing_date |-> rec.filing_date, signal_type |-> None,
                       signal_strength |-> None, reasoning |-> None, timestamp |-> None]
             /\ signals' = Append(signals, sig)
             /\ UNCHANGED <<pollVars, ppc, filings, fi, results, passes, fetchVars>>
      ]_vars

\* Two calls with the same record, the second on a generator that already holds
\* a signal: the list holds the same Signal twice.
SignalPassThroughWitness ==
    /\ call.fn = "SignalGenerator.process_filing"
    /\ Len(signals) = 2
    /\ signals[1] = signals[2]
    /\ call.args.form_type = "8-K"
    /\ call.args.filing_date = None

\* The row of the dispatch queue for an accession number.
QueueEntry(adsh) ==
    dispatch_queue[CHOOSE k \in DOMAIN dispatch_queue : dispatch_queue[k].adsh = adsh]

\* C22. Every extractor output carries the four base fields of the dispatched
\* document: the record extracted from a queue entry has the entry's kind, owner
\* identifier, publication date and owner name, whatever its other fields.
BaseFieldsIncluded ==
    \A i \in DOMAIN results :
       results[i].extracted # <<>> =>
          LET rec == results[i].extracted[1]
              entry == QueueEntry(results[i].adsh)
          IN /\ rec.form_type = entry.form
             /\ rec.cik = entry.cik
             /\ rec.filing_date = entry.filing_date
             /\ rec.company_name = entry.company_name

\* C23. Backfill completes: the collector takes the dates of its list one by
\* one, each once and each later than the one before; whatever is raised while
\* a date is handled (a hit that cannot be read, a locked store) is caught and
\* the loop goes on with the next date; after the last date the run ends and
\* stays ended.
BackfillCompletes ==
    /\ [][ /\ (cycle'["backfill"] # cycle["backfill"]) =>
                 (/\ cycle'["backfill"] = cycle["backfill"] + 1
                  /\ cycle'["backfill"] <= Len(date_range)
                  /\ pc'["backfill"] = "loop"
                  /\ (cycle["backfill"] >= 1 =>
                        StrLess(date_range[cycle["backfill"]],
                                date_range[cycle'["backfill"]])))
           /\ (pc["backfill"] = "closed") =>
                 (pc'["backfill"] = "closed" /\ cycle'["backfill"] = cycle["backfill"])
           /\ date_range' = date_range
        ]_vars
    /\ [](pc["backfill"] \in {"start", "loop", "enqueue", "closed"})
    /\ [](pc["backfill"] = "closed" => cycle["backfill"] = Len(date_range))
    /\ <>(pc["backfill"] = "closed")

\* The run is over after its second date, the live loop never ran, and the seen
\* row of a hit of the first date that could not be read was committed with the
\* second date: the first date had raised.
BackfillWitness ==
    /\ pc["backfill"] = "closed"
    /\ cycle["backfill"] = 2
    /\ cycle["live"] = 0
    /\ \E i \in DOMAIN adsh_seen :
          /\ adsh_seen[i].first_seen_ts = 1
          /\ Count(dispatch_queue, adsh_seen[i].adsh) = 0

Max(a, b) == IF a >= b THEN a ELSE b

\* C24. Cycle pacing is measured from the cycle start: a cycle that started at
\* s and finished its work at e is followed by a cycle that starts at
\* max(s + I, e), I the poll interval; when the work took longer than I the next
\* cycle starts at e, with no delay added; and the cycle after it starts when
\* that was computed.
CyclePacing ==
    /\ [](call.fn = "cycle" =>
            /\ call.next = Max(call.start + call.interval, call.end)
            /\ call.end - call.start > call.interval => call.next = call.end)
    /\ [][ (call.fn = "cycle" /\ call'.fn = "cycle") => call'.start = call.next ]_vars

\* A cycle of the 60-second loop that took 61 seconds, followed at once by the
\* next cycle, which took a second and is followed 59 seconds later.
CyclePacingWitness ==
    /\ call.fn = "cycle"
    /\ call.n = 2
    /\ call.interval = LiveInterval
    /\ call.start = 61
    /\ call.end = 62
    /\ call.next = 121

CommittedTogether ==
    /\ [][ /\ (adsh_seen' # adsh_seen \/ dispatch_queue' # dispatch_queue
                  \/ sqlite_sequence' # sqlite_sequence) =>
                 \E p \in Pollers :
                    /\ pc[p] = "loop" /\ hits[p] = 0 /\ pc'[p] = "start"
                    /\ adsh_seen' = adsh_seen \o txn[p].seen
                    /\ dispatch_queue' = dispatch_queue \o txn[p].queue
           /\ \A p \in Pollers :
                 (kills' # kills /\ pc'[p] = "dead" /\ pc[p] # "dead") =>
                    /\ adsh_seen' = adsh_seen
                    /\ dispatch_queue' = dispatch_queue
                    /\ sqlite_sequence' = sqlite_sequence
                    /\ txn'[p] = NoTxn
                    /\ \A i \in DOMAIN txn[p].seen :
                          /\ Count(adsh_seen', txn[p].seen[i].adsh) = 0
                          /\ Count(dispatch_queue', txn[p].seen[i].adsh) = 0
                          /\ InsertOrIgnore(adsh_seen', txn[p].seen[i].adsh, 0).rowcount = 1
        ]_vars
    /\ [](\A x \in Ids :
             (Count(adsh_seen, x) = 1 /\ Count(dispatch_queue, x) = 0) =>
                \E h \in HitUniverse : h.adsh = x /\ HitRaises(h))

\* A poller was killed after it had inserted the seen row of a hit and before
\* its commit; restarted, it met the hit again in a later cycle, and the store
\* holds the hit's seen row and queue row, both written in that later cycle.
CommittedTogetherWitness ==
    \E x \in interrupted : \E i \in DOMAIN adsh_seen : \E j \in DOMAIN dispatch_queue :
       /\ kills = 1
       /\ adsh_seen[i].adsh = x
       /\ dispatch_queue[j].adsh = x
       /\ adsh_seen[i].first_seen_ts = 2
       /\ dispatch_queue[j].enqueued_ts = 2
       /\ \A p \in Pollers : txn[p] = NoTxn /\ pc[p] \in {"start", "closed"}

\* The hits of the day's list as the live loop's connection has them: seen.
SeenByLive(h) == Count(SeenView("live"), h.adsh) = 1

FirstHit(adsh) ==
    CHOOSE k \in DOMAIN day_hits.hits :
       /\ day_hits.hits[k].adsh = adsh
       /\ \A j \in 1..(k - 1) : day_hits.hits[j].adsh # adsh

\* C28. The dedup key is the accession number, not the compound id: whatever
\* hits of the day's list share an accession number, the queue holds at most
\* one entry for it, and that entry has the URL, the form and the owner of the
\* first of them in the list; the later ones create nothing.
DedupKeyIsAccession ==
    day_hits.fixed =>
       /\ \A h \in DayHitUniverse : Count(QueueView("live"), h.adsh) <= 1
       /\ \A i \in DOMAIN QueueView("live") :
             LET row == QueueView("live")[i]
                 first == day_hits.hits[FirstHit(row.adsh)]
             IN /\ row.url = build_url(first)
                /\ row.form = first.form
                /\ row.cik = first.ciks[1]

\* The API returned two hits with one accession number and different
\* documents, forms and owners: the cycle committed one entry, the first hit's.
DedupKeyWitness ==
    /\ day_hits.fixed
    /\ Len(day_hits.hits) = 2
    /\ day_hits.hits[1].adsh = day_hits.hits[2].adsh
    /\ day_hits.hits[1].form = "10-K/A"
    /\ day_hits.hits[2].form = "10-K"
    /\ pc["live"] = "start"
    /\ Len(dispatch_queue) = 1
    /\ dispatch_queue[1].form = "10-K/A"
    /\ dispatch_queue[1].url = build_url(day_hits.hits[1])
    /\ dispatch_queue[1].url # build_url(day_hits.hits[2])

\* The accession number is not in the list the pass is working on.
NotInPass(adsh) == \A i \in DOMAIN filings : filings[i].adsh # adsh

\* C29. A pipeline pass works on a snapshot: the pass reads the pending list
\* once, at its start, and never again; no step of the pass touches a row that
\* is not in that list, so an entry a poller commits while the pass runs keeps
\* processed = 0; the pass records outcomes for the entries of its list only;
\* and every row with processed = 0 is in what get_pending_filings returns next.
PassOnSnapshot ==
    /\ [][ /\ (ppc = "idle" /\ ppc' = "run") => filings' = get_pending_filings(dispatch_queue)
           /\ (ppc = "run") =>
                 /\ filings' = filings
                 /\ \A j \in DOMAIN dispatch_queue :
                       NotInPass(dispatch_queue[j].adsh) => dispatch_queue'[j] = dispatch_queue[j]
                 /\ \A j \in DOMAIN dispatch_queue' :
                       j \notin DOMAIN dispatch_queue => dispatch_queue'[j].processed = 0
        ]_vars
    /\ [](\A i \in DOMAIN results : results[i].adsh = filings[i].adsh)
    /\ [](\A j \in DOMAIN dispatch_queue :
             dispatch_queue[j].processed = 0 =>
                \E i \in DOMAIN get_pending_filings(dispatch_queue) :
                   get_pending_filings(dispatch_queue)[i].adsh = dispatch_queue[j].adsh)

\* The pass has handled the one entry of its list and marked it; a poller has
\* committed a second entry since the list was read, and it is pending.
PassOnSnapshotWitness ==
    /\ ppc = "run"
    /\ Len(filings) = 1
    /\ fi = 2
    /\ Len(dispatch_queue) = 2
    /\ dispatch_queue[1].processed = 1
    /\ NotInPass(dispatch_queue[2].adsh)
    /\ dispatch_queue[2].processed = 0

\* The SignalGenerator holds a signal made from the queue row.
HasSignal(row) ==
    \E k \in DOMAIN signals :
       signals[k].cik = row.cik /\ signals[k].form_type = row.form

\* C30. Signal before mark-processed: during and after a pass of one
\* FilingProcessor, every entry of its list that is marked processed has been
\* dispatched and has a Signal in the processor's SignalGenerator, there are at
\* least as many Signals as entries it marked, and an entry whose mark raised
\* is still pending and has its Signal all the same.
SignalBeforeMark ==
    passes > 0 =>
       /\ \A j \in DOMAIN dispatch_queue :
             (dispatch_queue[j].processed = 1 /\ ~NotInPass(dispatch_queue[j].adsh)) =>
                /\ \E i \in DOMAIN results : results[i].adsh = dispatch_queue[j].adsh
                /\ HasSignal(dispatch_queue[j])
       /\ Cardinality({j \in DOMAIN dispatch_queue :
                          dispatch_queue[j].processed = 1
                          /\ ~NotInPass(dispatch_queue[j].adsh)}) <= Len(signals)
       /\ \A i \in DOMAIN results :
             results[i].outcome = "exception" =>
                /\ QueueEntry(results[i].adsh).processed = 0
                /\ HasSignal(QueueEntry(results[i].adsh))

\* The store was locked when the pass came to mark its 10-K entry: the
\* exception was caught, the entry is pending, its Signal is in the list.
SignalBeforeMarkWitness ==
    /\ PassOver
    /\ Len(results) = 1
    /\ results[1].outcome = "exception"
    /\ Len(signals) = 1
    /\ QueueEntry(results[1].adsh).processed = 0

-----------------------------------------------------------------------------
\* A step of the pipeline (run_pipeline's start, one filing, its end): every one
\* of them moves ppc, fi or results, and no poller step touches these.
PipelineStep == pipeVars' # pipeVars

\* Row b is row a with at most its processed flag set.
SameButFlag(a, b) ==
    /\ [b EXCEPT !.processed = a.processed] = a
    /\ b.processed \in {a.processed, 1}

\* C31. Disjoint write sets of producer and consumer. A poller step leaves every
\* committed row of the seen store and of the queue as it is (processed flag
\* included) and only adds rows behind them; the rows of its open transaction
\* stay as written until the transaction ends, by a commit that adds exactly
\* them to both tables or by a rollback that adds nothing. A pipeline step
\* leaves the queue with the same rows in the same places, each unchanged but
\* for a processed flag that it set, and leaves the seen store, the id counter
\* and the pollers' open transactions untouched.
DisjointWriteSets ==
    [][ IF PipelineStep
        THEN /\ Len(dispatch_queue') = Len(dispatch_queue)
             /\ \A i \in DOMAIN dispatch_queue :
                   SameButFlag(dispatch_queue[i], dispatch_queue'[i])
             /\ adsh_seen' = adsh_seen
             /\ sqlite_sequence' = sqlite_sequence
             /\ txn' = txn
        ELSE /\ Len(dispatch_queue') >= Len(dispatch_queue)
             /\ SubSeq(dispatch_queue', 1, Len(dispatch_queue)) = dispatch_queue
             /\ Len(adsh_seen') >= Len(adsh_seen)
             /\ SubSeq(adsh_seen', 1, Len(adsh_seen)) = adsh_seen
             /\ \A p \in Pollers :
                   \/ /\ Len(txn'[p].queue) >= Len(txn[p].queue)
                      /\ SubSeq(txn'[p].queue, 1, Len(txn[p].queue)) = txn[p].queue
                      /\ Len(txn'[p].seen) >= Len(txn[p].seen)
                      /\ SubSeq(txn'[p].seen, 1, Len(txn[p].seen)) = txn[p].seen
                   \/ /\ txn'[p] = NoTxn
                      /\ dispatch_queue' = dispatch_queue \o txn[p].queue
                      /\ adsh_seen' = adsh_seen \o txn[p].seen
                   \/ /\ txn'[p] = NoTxn
                      /\ dispatch_queue' = dispatch_queue
                      /\ adsh_seen' = adsh_seen
      ]_vars

\* The pipeline has set the flag of one entry and, after that, a poller has
\* written a further entry that it has not committed yet.
DisjointWriteSetsWitness ==
    /\ \E i \in DOMAIN dispatch_queue : dispatch_queue[i].processed = 1
    /\ \E p \in Pollers : txn[p].queue # <<>>

-----------------------------------------------------------------------------
\* The keys of the filing dict built by get_pending_filings.
PendingKeys == {"adsh", "form", "cik", "url", "enqueued_ts"}

\* C32. The pending-filing record handed to extractors carries only
\* identifier, kind, owner identifier, URL and enqueue timestamp: every filing
\* of a pass has exactly these five keys, with the entry's values. Therefore
\* every 10-K entry the pass has handled has an extracted record whose
\* publication date and owner name are None, and every signal of the pass has
\* the publication date None, whatever the entry stores for them.
HandOffFiveFields ==
    /\ \A i \in DOMAIN filings :
          /\ DOMAIN filings[i] = PendingKeys
          /\ \A k \in PendingKeys : filings[i][k] = QueueEntry(filings[i].adsh)[k]
    /\ \A i \in DOMAIN results :
          IF filings[i].form = "10-K"
          THEN /\ Len(results[i].extracted) = 1
               /\ results[i].extracted[1].filing_date = None
               /\ results[i].extracted[1].company_name = None
               /\ results[i].extracted[1].cik = QueueEntry(results[i].adsh).cik
          ELSE results[i].extracted = <<>>
    /\ Len(signals) = Cardinality({i \in DOMAIN results : filings[i].form = "10-K"})
    /\ \A i \in DOMAIN signals : signals[i].filing_date = None

\* A pass has handled and marked two 10-K entries that store different
\* publication dates and owner names, none of them empty; both records and both
\* signals are there.
HandOffWitness ==
    /\ PassOver
    /\ Len(results) = 2 /\ Len(signals) = 2
    /\ \A i \in DOMAIN results :
          /\ QueueEntry(results[i].adsh).processed = 1
          /\ QueueEntry(results[i].adsh).filing_date \in {"d1", "d2"}
          /\ QueueEntry(results[i].adsh).company_name \in {"n1", "n2"}
    /\ QueueEntry(results[1].adsh).filing_date # QueueEntry(results[2].adsh).filing_date
    /\ QueueEntry(results[1].adsh).company_name # QueueEntry(results[2].adsh).company_name

-----------------------------------------------------------------------------
\* C35. Page requests are well-formed: within one paginated fetch the i-th
\* request is the one for page i, so the pages are requested from 1 upwards in
\* strictly increasing order and none twice; each request's offset "from" is the
\* number of hits on the pages before its own, (page - 1) * 100; and the
\* request about to be sent is for a page no request was sent for.
WellFormedRequests ==
    /\ requests # <<>> => requests[1] = [page |-> 1, from |-> 0]
    /\ \A i \in DOMAIN requests :
          /\ DOMAIN requests[i] = {"page", "from"}
          /\ requests[i].from = (requests[i].page - 1) * PageSize
          /\ \A j \in DOMAIN requests :
                /\ i < j => requests[i].page < requests[j].page
                /\ i # j => requests[i] # requests[j]
          /\ i > 1 => requests[i].page = requests[i - 1].page + 1
    /\ fpc = "page" => \A i \in DOMAIN requests : requests[i].page < page

\* The collector's fetch has asked for the pages 1 to 6, the sixth with offset
\* 500, and is about to ask for the seventh.
WellFormedWitness ==
    /\ fmode = "fetch_filings_for_date"
    /\ fpc = "page"
    /\ page = 7
    /\ Len(requests) = 6
    /\ requests[6] = [page |-> 6, from |-> 500]

-----------------------------------------------------------------------------
\* C33. store_filing is an upsert keyed by accession number. For every call in
\* any sequence of calls: afterwards the table holds at most one row per
\* accession number and no id twice, and every row it held is still there with
\* its id and accession number. A call that returns an id leaves exactly one
\* row for the filing's accession number, and the id is that row's. When the
\* accession number was stored already, the id returned is the id of the
\* existing row, no row is added, and the row differs from what it was in
\* company_name, description and updated_at only (never in ticker, form, filing
\* date, url, created_at); otherwise one row is added behind the others. A call
\* that ends in a store error returns None and leaves table and id counter as
\* they were.
UpsertByAccession ==
    [][ stores' # stores =>
          LET filing == call'.filing
              before == filings_table
              after == filings_table'
              existing == Existing(before, filing)
          IN /\ call'.fn = "store_filing"
             /\ \A a \in AccessionNumbers :
                   Cardinality({i \in DOMAIN after : after[i].accession_number = a}) <= 1
             /\ \A i, j \in DOMAIN after : i # j => after[i].id # after[j].id
             /\ Len(after) >= Len(before)
             /\ \A i \in DOMAIN before :
                   /\ after[i].id = before[i].id
                   /\ after[i].accession_number = before[i].accession_number
             /\ IF call'.result = <<>>
                THEN after = before /\ filings_seq' = filings_seq
                ELSE /\ Cardinality(Existing(after, filing)) = 1
                     /\ after[fetchone(Existing(after, filing))].id = call'.result[1]
                     /\ IF existing # {}
                        THEN /\ Len(after) = Len(before)
                             /\ call'.result[1] = before[fetchone(existing)].id
                             /\ \A i \in DOMAIN before :
                                   IF i \in existing
                                   THEN /\ [after[i] EXCEPT
                                              !.company_name = before[i].company_name,
                                              !.description = before[i].description,
                                              !.updated_at = before[i].updated_at] = before[i]
                                        /\ after[i].description = filing.description
                                        /\ after[i].company_name = GetOr(filing, "company_name", "")
                                        /\ after[i].updated_at >= before[i].updated_at
                                   ELSE after[i] = before[i]
                        ELSE /\ after = Append(before, after[Len(after)])
                             /\ after[Len(after)].company_ticker = call'.ticker
                             /\ after[Len(after)].form_type = filing.form
                             /\ after[Len(after)].filing_date = filing.filing_date
                             /\ after[Len(after)].description = filing.description
      ]_vars

\* Two accession numbers are stored and the third call was made for the first
\* of them, with another ticker and another form: it returned the id 1, the row
\* has the call's description and company name and a later updated_at, and
\* still the form and the ticker it was inserted with.
UpsertWitness ==
    /\ call.fn = "store_filing"
    /\ call.result = <<1>>
    /\ Len(filings_table) = 2
    /\ filings_table[1].id = 1
    /\ filings_table[1].accession_number = call.filing.accession_number
    /\ filings_table[1].description = "amended"
    /\ call.filing.description = "amended"
    /\ filings_table[1].company_name = "n2"
    /\ filings_table[1].form_type = "10-K"
    /\ call.filing.form = "10-K/A"
    /\ filings_table[1].company_ticker # call.ticker
    /\ filings_table[1].created_at < filings_table[1].updated_at

-----------------------------------------------------------------------------
\* The accession numbers the table holds.
Stored == {filings_table[i].accession_number : i \in DOMAIN filings_table}

\* C34. monitor_filings returns the number of new filings found: when a run
\* has returned, its result is the number of filings inside the time window that
\* were not in the filings table when the run started and are in it now,
\* inserted by the run.
NewFilingsCounted ==
    (mpc = "idle" /\ call.fn = "monitor_filings") =>
        call.result = Cardinality({a \in run_found : a \notin run_before /\ a \in Stored})
====
